---- MODULE Spec2Model ----
(***************************************************************************)
(* A model of the crypto-practice primitives: the SHA-512/384 engine       *)
(* (src/src/sha.rs), the HMAC construction (src/src/hmac.rs) and the GHASH *)
(* authenticator (src/src/ghash.rs).                                       *)
(*                                                                         *)
(* Bytes are the integers 0..255 and byte strings are sequences of them.   *)
(* A u64 is kept at its full width as four 16-bit limbs, most significant  *)
(* first: <<l1, l2, l3, l4>> stands for l1*2^48 + l2*2^32 + l3*2^16 + l4.  *)
(***************************************************************************)
EXTENDS Integers, Sequences, FiniteSets, TLC

(***************************************************************************)
(* 64-bit machine words.                                                   *)
(***************************************************************************)
RECURSIVE BitAnd(_, _)
BitAnd(a, b) ==
  IF a = 0 \/ b = 0 THEN 0
  ELSE (a % 2) * (b % 2) + 2 * BitAnd(a \div 2, b \div 2)

\* The bitwise AND of two bytes, tabulated.
AndTable == [a \in 0..255 |-> [b \in 0..255 |-> BitAnd(a, b)]]

And16(a, b) ==
  (AndTable[a \div 256][b \div 256] * 256) + AndTable[a % 256][b % 256]

Xor16(a, b) == a + b - 2 * And16(a, b)

Or16(a, b) == a + b - And16(a, b)

W_zero == <<0, 0, 0, 0>>

W_ones == <<65535, 65535, 65535, 65535>>

\* n as u64, for 0 <= n < 2^31
W_from(n) == <<0, 0, n \div 65536, n % 65536>>

W_and(x, y) ==
  <<And16(x[1], y[1]), And16(x[2], y[2]), And16(x[3], y[3]), And16(x[4], y[4])>>

W_xor(x, y) ==
  <<Xor16(x[1], y[1]), Xor16(x[2], y[2]), Xor16(x[3], y[3]), Xor16(x[4], y[4])>>

W_or(x, y) ==
  <<Or16(x[1], y[1]), Or16(x[2], y[2]), Or16(x[3], y[3]), Or16(x[4], y[4])>>

W_not(x) == <<65535 - x[1], 65535 - x[2], 65535 - x[3], 65535 - x[4]>>

\* u64::wrapping_add
wrapping_add(x, y) ==
  LET s4 == x[4] + y[4]
      s3 == x[3] + y[3] + (s4 \div 65536)
      s2 == x[2] + y[2] + (s3 \div 65536)
      s1 == x[1] + y[1] + (s2 \div 65536)
  IN  <<s1 % 65536, s2 % 65536, s3 % 65536, s4 % 65536>>

\* x >> n on u64 (logical), 0 <= n < 64
W_shr(x, n) ==
  LET q == n \div 16
      s == n % 16
      p == 2^s
      c == 2^(16 - s)
      L(i) == IF i - q >= 1 THEN x[i - q] ELSE 0
      R(i) == (L(i) \div p) + ((L(i - 1) % p) * c)
  IN  <<R(1), R(2), R(3), R(4)>>

\* x << n on u64, 0 <= n < 64
W_shl(x, n) ==
  LET q == n \div 16
      s == n % 16
      p == 2^s
      c == 2^(16 - s)
      L(i) == IF i + q <= 4 THEN x[i + q] ELSE 0
      R(i) == ((L(i) * p) % 65536) + (L(i + 1) \div c)
  IN  <<R(1), R(2), R(3), R(4)>>

\* (x as i64 >> n) as u64: the sign bit is copied into the vacated bits
W_sar(x, n) ==
  IF x[1] >= 32768 THEN W_not(W_shr(W_not(x), n)) ELSE W_shr(x, n)

\* u64::rotate_right
rotate_right(x, n) ==
  LET q == n \div 16
      s == n % 16
      p == 2^s
      c == 2^(16 - s)
      L(i) == x[((i - 1 - q) % 4) + 1]
      R(i) == (L(i) \div p) + ((L(i - 1) % p) * c)
  IN  <<R(1), R(2), R(3), R(4)>>

(***************************************************************************)
(* byteorder::BigEndian                                                    *)
(***************************************************************************)
\* BigEndian::read_u64: eight bytes, most significant first
read_u64(b) ==
  <<b[1] * 256 + b[2], b[3] * 256 + b[4], b[5] * 256 + b[6], b[7] * 256 + b[8]>>

\* BigEndian::write_u64
write_u64(w) ==
  <<w[1] \div 256, w[1] % 256, w[2] \div 256, w[2] % 256,
    w[3] \div 256, w[3] % 256, w[4] \div 256, w[4] % 256>>

\* BigEndian::read_u64_into: Len(bytes) = 8 * (number of words)
read_u64_into(bytes) ==
  [i \in 1..(Len(bytes) \div 8) |-> read_u64(SubSeq(bytes, 8 * i - 7, 8 * i))]

\* BigEndian::write_u64_into
RECURSIVE write_u64_into(_)
write_u64_into(ws) ==
  IF ws = <<>> THEN <<>> ELSE write_u64(Head(ws)) \o write_u64_into(Tail(ws))

\* Operator arguments are passed unevaluated; a loop tests Computed(acc) so
\* that its accumulator is computed at every iteration, not left as a chain
\* of deferred computations as deep as the loop is long.
Computed(v) == v = v

\* n copies of byte b
Rep(b, n) == [i \in 1..n |-> b]

(***************************************************************************)
(* src/src/sha.rs                                                          *)
(***************************************************************************)
SHA512_OUTPUT_LEN == 64

SHA384_OUTPUT_LEN == 48

SHA512_initial_state ==
  <<
    <<27145, 58983, 62396, 51464>>,  \* 0x6a09_e667_f3bc_c908
    <<47975, 44677, 33994, 42811>>,  \* 0xbb67_ae85_84ca_a73b
    <<15470, 62322, 65172, 63531>>,  \* 0x3c6e_f372_fe94_f82b
    <<42319, 62778, 24349, 14065>>,  \* 0xa54f_f53a_5f1d_36f1
    <<20750, 21119, 44518, 33489>>,  \* 0x510e_527f_ade6_82d1
    <<39685, 26764, 11070, 27679>>,  \* 0x9b05_688c_2b3e_6c1f
    << 8067, 55723, 64321, 48491>>,  \* 0x1f83_d9ab_fb41_bd6b
    <<23520, 52505,  4990,  8569>>   \* 0x5be0_cd19_137e_2179
  >>

SHA384_initial_state ==
  <<
    <<52155, 40285, 49413, 40664>>,  \* 0xcbbb_9d5d_c105_9ed8
    <<25242, 10538, 13948, 54535>>,  \* 0x629a_292a_367c_d507
    <<37209,   346, 12400, 56599>>,  \* 0x9159_015a_3070_dd17
    << 5423, 60632, 63246, 22841>>,  \* 0x152f_ecd8_f70e_5939
    <<26419,  9831, 65472,  2865>>,  \* 0x6733_2667_ffc0_0b31
    <<36532, 19079, 26712,  5393>>,  \* 0x8eb4_4a87_6858_1511
    <<56076, 11789, 25849, 36775>>,  \* 0xdb0c_2e0d_64f9_8fa7
    <<18357, 18461, 48890, 20388>>   \* 0x47b5_481d_befa_4fa4
  >>

K ==
  <<
    <<17034, 12184, 55080, 44578>>,  \* 0x428a_2f98_d728_ae22
    <<28983, 17553,  9199, 26061>>,  \* 0x7137_4491_23ef_65cd
    <<46528, 64463, 60493, 15151>>,  \* 0xb5c0_fbcf_ec4d_3b2f
    <<59829, 56229, 33161, 56252>>,  \* 0xe9b5_dba5_8189_dbbc
    <<14678, 49755, 62280, 46392>>,  \* 0x3956_c25b_f348_b538
    <<23025,  4593, 46597, 53273>>,  \* 0x59f1_11f1_b605_d019
    <<37439, 33444, 44825, 20379>>,  \* 0x923f_82a4_af19_4f9b
    <<43804, 24277, 55917, 33048>>,  \* 0xab1c_5ed5_da6d_8118
    <<55303, 43672, 41731,   578>>,  \* 0xd807_aa98_a303_0242
    << 4739, 23297, 17776, 28606>>,  \* 0x1283_5b01_4570_6fbe
    << 9265, 34238, 20196, 45708>>,  \* 0x2431_85be_4ee4_b28c
    <<21772, 32195, 54783, 46306>>,  \* 0x550c_7dc3_d5ff_b4e2
    <<29374, 23924, 62075, 35183>>,  \* 0x72be_5d74_f27b_896f
    <<32990, 45566, 15126, 38577>>,  \* 0x80de_b1fe_3b16_96b1
    <<39900,  1703,  9671,  4661>>,  \* 0x9bdc_06a7_25c7_1235
    <<49563, 61812, 53097,  9876>>,  \* 0xc19b_f174_cf69_2694
    <<58523, 27073, 40689, 19154>>,  \* 0xe49b_69c1_9ef1_4ad2
    <<61374, 18310, 14415,  9699>>,  \* 0xefbe_4786_384f_25e3
    << 4033, 40390, 35724, 54709>>,  \* 0x0fc1_9dc6_8b8c_d5b5
    << 9228, 41420, 30636, 40037>>,  \* 0x240c_a1cc_77ac_9c65
    <<11753, 11375, 22827,   629>>,  \* 0x2de9_2c6f_592b_0275
    <<19060, 33962, 28326, 58499>>,  \* 0x4a74_84aa_6ea6_e483
    <<23728, 43484, 48449, 64468>>,  \* 0x5cb0_a9dc_bd41_fbd4
    <<30457, 35034, 33553, 21429>>,  \* 0x76f9_88da_8311_53b5
    <<38974, 20818, 61030, 57259>>,  \* 0x983e_5152_ee66_dfab
    <<43057, 50797, 11700, 12816>>,  \* 0xa831_c66d_2db4_3210
    <<45059, 10184, 39163,  8511>>,  \* 0xb003_27c8_98fb_213f
    <<48985, 32711, 48879,  3812>>,  \* 0xbf59_7fc7_beef_0ee4
    <<50912,  3059, 15784, 36802>>,  \* 0xc6e0_0bf3_3da8_8fc2
    <<54695, 37191, 37642, 42789>>,  \* 0xd5a7_9147_930a_a725
    << 1738, 25425, 57347, 33391>>,  \* 0x06ca_6351_e003_826f
    << 5161, 10599,  2574, 28272>>,  \* 0x1429_2967_0a0e_6e70
    <<10167,  2693, 18130, 12284>>,  \* 0x27b7_0a85_46d2_2ffc
    <<11803,  8504, 23590, 51494>>,  \* 0x2e1b_2138_5c26_c926
    <<19756, 28156, 23236, 10989>>,  \* 0x4d2c_6dfc_5ac4_2aed
    <<21304,  3347, 40341, 46047>>,  \* 0x5338_0d13_9d95_b3df
    <<25866, 29524, 35759, 25566>>,  \* 0x650a_7354_8baf_63de
    <<30314,  2747, 15479, 45736>>,  \* 0x766a_0abb_3c77_b2a8
    <<33218, 51502, 18413, 44774>>,  \* 0x81c2_c92e_47ed_aee6
    <<37490, 11397,  5250, 13627>>,  \* 0x9272_2c85_1482_353b
    <<41663, 59553, 19697,   868>>,  \* 0xa2bf_e8a1_4cf1_0364
    <<43034, 26187, 48194, 12289>>,  \* 0xa81a_664b_bc42_3001
    <<49739, 35696, 53496, 38801>>,  \* 0xc24b_8b70_d0f8_9791
    <<51052, 20899,  1620, 48688>>,  \* 0xc76c_51a3_0654_be30
    <<53650, 59417, 55023, 21016>>,  \* 0xd192_e819_d6ef_5218
    <<54937,  1572, 21861, 43280>>,  \* 0xd699_0624_5565_a910
    <<62478, 13701, 22385,  8234>>,  \* 0xf40e_3585_5771_202a
    << 4202, 41072, 12987, 53688>>,  \* 0x106a_a070_32bb_d1b8
    << 6564, 49430, 47314, 53448>>,  \* 0x19a4_c116_b8d2_d0c8
    << 7735, 27656, 20801, 43859>>,  \* 0x1e37_6c08_5141_ab53
    <<10056, 30540, 57230, 60313>>,  \* 0x2748_774c_df8e_eb99
    <<13488, 48309, 57755, 18600>>,  \* 0x34b0_bcb5_e19b_48a8
    <<14620,  3251, 50633, 23139>>,  \* 0x391c_0cb3_c5c9_5a63
    <<20184, 43594, 58177, 35531>>,  \* 0x4ed8_aa4a_e341_8acb
    <<23452, 51791, 30563, 58227>>,  \* 0x5b9c_ca4f_7763_e373
    <<26670, 28659, 54962, 47267>>,  \* 0x682e_6ff3_d6b2_b8a3
    <<29839, 33518, 24047, 45820>>,  \* 0x748f_82ee_5def_b2fc
    <<30885, 25455, 17175, 12128>>,  \* 0x78a5_636f_4317_2f60
    <<33992, 30740, 41456, 43890>>,  \* 0x84c8_7814_a1f0_ab72
    <<36039,   520,  6756, 14828>>,  \* 0x8cc7_0208_1a64_39ec
    <<37054, 65530,  9059,  7720>>,  \* 0x90be_fffa_2363_1e28
    <<42064, 27883, 56962, 48617>>,  \* 0xa450_6ceb_de82_bde9
    <<48889, 41975, 45766, 30997>>,  \* 0xbef9_a3f7_b2c6_7915
    <<50801, 30962, 58226, 21291>>,  \* 0xc671_78f2_e372_532b
    <<51751, 16078, 59942, 24988>>,  \* 0xca27_3ece_ea26_619c
    <<53638, 47303,  8640, 49671>>,  \* 0xd186_b8c7_21c0_c207
    <<60122, 32214, 52704, 60190>>,  \* 0xeada_7dd6_cde0_eb1e
    <<62845, 20351, 61038, 53624>>,  \* 0xf57d_4f7f_ee6e_d178
    << 1776, 26538, 29207, 28602>>,  \* 0x06f0_67aa_7217_6fba
    << 2659, 32197, 41672, 39078>>,  \* 0x0a63_7dc5_a2c8_98a6
    << 4415, 38916, 48889,  3502>>,  \* 0x113f_9804_bef9_0dae
    << 7025,  2869,  4892, 18203>>,  \* 0x1b71_0b35_131c_471b
    <<10459, 30709,  8964, 32132>>,  \* 0x28db_77f5_2304_7d84
    <<13002, 43899, 16583,  9363>>,  \* 0x32ca_ab7b_40c7_2493
    <<15518, 48650,  5577, 48828>>,  \* 0x3c9e_be0a_15c9_bebc
    <<17181, 26564, 39952,  3404>>,  \* 0x431d_67c4_9c10_0d4c
    <<19653, 54462, 52030, 17078>>,  \* 0x4cc5_d4be_cb3e_42b6
    <<22911, 10652, 64613, 32298>>,  \* 0x597f_299c_fc65_7e2a
    <<24523, 28587, 15062, 64236>>,  \* 0x5fcb_6fab_3ad6_faec
    <<27716,  6540, 19015, 22551>>   \* 0x6c44_198c_4a47_5817
  >>

SHA512 == [output_len |-> SHA512_OUTPUT_LEN, initial_state |-> SHA512_initial_state]

SHA384 == [output_len |-> SHA384_OUTPUT_LEN, initial_state |-> SHA384_initial_state]

ch(x, y, z) == W_xor(W_and(x, y), W_and(W_not(x), z))

maj(x, y, z) == W_xor(W_xor(W_and(x, y), W_and(x, z)), W_and(y, z))

bsig0(x) ==
  W_xor(W_xor(rotate_right(x, 28), rotate_right(x, 34)), rotate_right(x, 39))

bsig1(x) ==
  W_xor(W_xor(rotate_right(x, 14), rotate_right(x, 18)), rotate_right(x, 41))

ssig0(x) == W_xor(W_xor(rotate_right(x, 1), rotate_right(x, 8)), W_shr(x, 7))

ssig1(x) == W_xor(W_xor(rotate_right(x, 19), rotate_right(x, 61)), W_shr(x, 6))

\* fn len: the bit length 8 * bytes.len() as eight big-endian bytes
len(bytes) == write_u64(W_from(8 * Len(bytes)))

\* A plausible slip: the zero count is taken from the length before the 0x80
\* byte is pushed.
pad_len_before_push(bytes) ==
  LET l == len(bytes)
      padding == (128 + 112 - (Len(bytes) % 128)) % 128
  IN  Append(bytes, 128) \o Rep(0, padding) \o Rep(0, 8) \o l

\* Sha::pad
pad(bytes) ==
  LET l == len(bytes)
      pushed == Append(bytes, 128)
      padding == (128 + 112 - (Len(pushed) % 128)) % 128
  IN  pushed \o Rep(0, padding) \o Rep(0, 8) \o l

\* <[T]>::chunks(n): consecutive slices of n elements, the last one shorter
\* when n does not divide the length
RECURSIVE chunks(_, _)
chunks(s, n) ==
  IF Len(s) = 0 THEN <<>>
  ELSE IF Len(s) <= n THEN <<s>>
  ELSE <<SubSeq(s, 1, n)>> \o chunks(SubSeq(s, n + 1, Len(s)), n)

\* One step of the message schedule: w[t] from the words before it (indices
\* here start at 1, so t = Len(w) + 1 is the source's t + 1)
schedule_word(w) ==
  LET t == Len(w) + 1
  IN  Append(w, wrapping_add(wrapping_add(wrapping_add(
                  ssig1(w[t - 2]), w[t - 7]), ssig0(w[t - 15])), w[t - 16]))

\* n steps of the message schedule, in order (the count is halved only to
\* keep the evaluation shallow, here and in the loops below)
RECURSIVE schedule(_, _)
schedule(w, n) ==
  IF Computed(w) /\ n <= 0 THEN w
  ELSE IF n = 1 THEN schedule_word(w)
  ELSE schedule(schedule(w, n \div 2), n - (n \div 2))

\* One round over the working registers r = <<a, b, c, d, e, f, g, h>>, with
\* the round constant K[t] and the schedule word w[t]
round(r, w, t) ==
  LET t1 == wrapping_add(wrapping_add(wrapping_add(wrapping_add(
              r[8], bsig1(r[5])), ch(r[5], r[6], r[7])), K[t]), w[t])
      t2 == wrapping_add(bsig0(r[1]), maj(r[1], r[2], r[3]))
  IN  <<wrapping_add(t1, t2), r[1], r[2], r[3],
        wrapping_add(r[4], t1), r[5], r[6], r[7]>>

\* The rounds lo..hi-1, in order
RECURSIVE rounds(_, _, _, _)
rounds(r, w, lo, hi) ==
  IF Computed(r) /\ hi <= lo THEN r
  ELSE IF hi = lo + 1 THEN round(r, w, lo)
  ELSE LET mid == (lo + hi) \div 2
       IN  rounds(rounds(r, w, lo, mid), w, mid, hi)

\* One iteration of the loop over message.chunks(128) in Sha::process
compress(state, chunk) ==
  LET w == schedule(read_u64_into(chunk), 64)
      r == rounds(state, w, 1, Len(K) + 1)
  IN  <<wrapping_add(state[1], r[1]), wrapping_add(state[2], r[2]),
        wrapping_add(state[3], r[3]), wrapping_add(state[4], r[4]),
        wrapping_add(state[5], r[5]), wrapping_add(state[6], r[6]),
        wrapping_add(state[7], r[7]), wrapping_add(state[8], r[8])>>

RECURSIVE compress_all(_, _)
compress_all(state, blocks) ==
  IF Computed(state) /\ blocks = <<>> THEN state
  ELSE compress_all(compress(state, Head(blocks)), Tail(blocks))

\* Sha::new
Sha_new(hash) == [state |-> hash.initial_state, output_len |-> hash.output_len]

\* Sha::process. The padded copy of the message is cut into chunks of 128
\* bytes; read_u64_into(chunk, &mut w[..16]) panics on a chunk of any other
\* length. The result carries the padded message and whether it panicked.
Sha_process(sha, message) ==
  LET padded == pad(message)
      blocks == chunks(padded, 128)
      full == \A i \in 1..Len(blocks) : Len(blocks[i]) = 128
  IN  [sha |-> IF full THEN [sha EXCEPT !.state = compress_all(@, blocks)]
                       ELSE sha,
       message |-> padded,
       panic |-> ~full]

\* A plausible slip: the buffer is filled as far as it goes, with no check
\* of its length.
Sha_write_digest_into_unchecked(sha, buf) ==
  LET digest == write_u64_into(SubSeq(sha.state, 1, sha.output_len \div 8))
  IN  [buf |-> [i \in 1..Len(buf) |->
                  IF i <= Len(digest) THEN digest[i] ELSE 0],
       panic |-> FALSE]

\* Sha::write_digest_into: assert_eq!(self.output_len, buf.len()) aborts
\* before the buffer is touched.
Sha_write_digest_into(sha, buf) ==
  IF sha.output_len # Len(buf)
  THEN [buf |-> buf, panic |-> TRUE]
  ELSE [buf |-> write_u64_into(SubSeq(sha.state, 1, sha.output_len \div 8)),
        panic |-> FALSE]

\* fn sha512 and fn sha384: new, process, write_digest_into a zeroed array
sha512(msg) ==
  Sha_write_digest_into(Sha_process(Sha_new(SHA512), msg).sha,
                        Rep(0, SHA512_OUTPUT_LEN)).buf

sha384(msg) ==
  Sha_write_digest_into(Sha_process(Sha_new(SHA384), msg).sha,
                        Rep(0, SHA384_OUTPUT_LEN)).buf

(***************************************************************************)
(* The hash capability HMAC is generic over (sha2::HashFunction, with      *)
(* Sha384 its one implementation).  An engine is the bytes fed to it so    *)
(* far; finalizing writes the SHA-384 digest of those bytes.               *)
(***************************************************************************)
BLOCK_SIZE == 128

DIGEST_SIZE == 48

\* T::default()
HashFunction_default == [fed |-> <<>>]

\* HashFunction::update: incremental, the input is appended to the stream
HashFunction_update(h, input) == [fed |-> h.fed \o input]

\* HashFunction::write_digest: a buffer of any size but DIGEST_SIZE is a
\* fatal precondition violation
HashFunction_write_digest(h, output) ==
  IF Len(output) # DIGEST_SIZE
  THEN [h |-> h, buf |-> output, panic |-> TRUE]
  ELSE [h |-> h, buf |-> sha384(h.fed), panic |-> FALSE]

(***************************************************************************)
(* src/src/hmac.rs                                                         *)
(***************************************************************************)
MAX_DIGEST_SIZE == 64

IPAD == 54

OPAD == 92

\* u8 ^ u8
ByteXor(a, b) == Xor16(a, b)

\* One iteration of the two loops of Hmac::new, for index i (from 1): for a
\* byte of new_key one update per engine with the byte XOR the pad, for an
\* index in new_key.len()..BLOCK_SIZE one update per engine with the bare pad.
Hmac_prime_byte(hmac, new_key, i) ==
  IF i <= Len(new_key)
  THEN [inner_hash_function |->
          HashFunction_update(hmac.inner_hash_function,
                              <<ByteXor(new_key[i], IPAD)>>),
        outer_hash_function |->
          HashFunction_update(hmac.outer_hash_function,
                              <<ByteXor(new_key[i], OPAD)>>)]
  ELSE [inner_hash_function |->
          HashFunction_update(hmac.inner_hash_function, <<IPAD>>),
        outer_hash_function |->
          HashFunction_update(hmac.outer_hash_function, <<OPAD>>)]

\* The iterations for the indices lo..hi-1, in order (the range is halved
\* only to keep the evaluation shallow)
RECURSIVE Hmac_prime(_, _, _, _)
Hmac_prime(hmac, new_key, lo, hi) ==
  IF Computed(hmac) /\ hi <= lo THEN hmac
  ELSE IF hi = lo + 1 THEN Hmac_prime_byte(hmac, new_key, lo)
  ELSE LET mid == (lo + hi) \div 2
       IN  Hmac_prime(Hmac_prime(hmac, new_key, lo, mid), new_key, mid, hi)

\* The last index the two loops of Hmac::new reach
Hmac_prime_end(new_key) ==
  IF Len(new_key) > BLOCK_SIZE THEN Len(new_key) ELSE BLOCK_SIZE

\* The key Hmac::new works with: the digest of a key longer than BLOCK_SIZE
\* (hashed_key[..DIGEST_SIZE]), any other key as it is
Hmac_new_key(key) ==
  IF Len(key) > BLOCK_SIZE
  THEN LET hashed_key ==
             HashFunction_write_digest(
               HashFunction_update(HashFunction_default, key),
               Rep(0, DIGEST_SIZE)).buf \o Rep(0, MAX_DIGEST_SIZE - DIGEST_SIZE)
       IN  SubSeq(hashed_key, 1, DIGEST_SIZE)
  ELSE key

\* A plausible slip: >= for >, so that a key of exactly BLOCK_SIZE bytes is
\* hashed too.
Hmac_new_hash_at_block_size(key) ==
  Hmac_prime([inner_hash_function |-> HashFunction_default,
              outer_hash_function |-> HashFunction_default],
             IF Len(key) >= BLOCK_SIZE
             THEN HashFunction_write_digest(
                    HashFunction_update(HashFunction_default, key),
                    Rep(0, DIGEST_SIZE)).buf
             ELSE key, 1, BLOCK_SIZE + 1)

\* Hmac::new
Hmac_new(key) ==
  Hmac_prime([inner_hash_function |-> HashFunction_default,
              outer_hash_function |-> HashFunction_default],
             Hmac_new_key(key), 1, Hmac_prime_end(Hmac_new_key(key)) + 1)

\* A plausible slip: the input replaces what was streamed before it.
Hmac_update_restart(hmac, input) ==
  [hmac EXCEPT !.inner_hash_function =
     [fed |-> SubSeq(@.fed, 1, BLOCK_SIZE) \o input]]

\* Hmac::update
Hmac_update(hmac, input) ==
  [hmac EXCEPT !.inner_hash_function = HashFunction_update(@, input)]

\* A plausible slip: the outer engine is finalized without the inner digest.
Hmac_write_digest_no_inner(hmac, output) ==
  LET i == HashFunction_write_digest(hmac.inner_hash_function, output)
      o == HashFunction_write_digest(hmac.outer_hash_function, i.buf)
  IN  [hmac |-> [inner_hash_function |-> i.h, outer_hash_function |-> o.h],
       buf |-> o.buf, panic |-> i.panic \/ o.panic]

\* Hmac::write_digest: the inner digest goes into output, is fed to the
\* outer engine, and the outer digest overwrites it. A panic of the first
\* step leaves the rest undone. (i and o are bound as elements of singleton
\* sets so that each digest is computed once.)
Hmac_write_digest(hmac, output) ==
  CHOOSE r \in
    {IF i.panic
     THEN [hmac |-> [hmac EXCEPT !.inner_hash_function = i.h],
           buf |-> i.buf, panic |-> TRUE]
     ELSE CHOOSE q \in
            {[hmac |-> [inner_hash_function |-> i.h,
                        outer_hash_function |-> o.h],
              buf |-> o.buf, panic |-> o.panic] :
               o \in {HashFunction_write_digest(
                        HashFunction_update(hmac.outer_hash_function, i.buf),
                        i.buf)}} : TRUE :
       i \in {HashFunction_write_digest(hmac.inner_hash_function, output)}} :
    TRUE

\* fn hmac_sha384
hmac_sha384(key, message) ==
  Hmac_write_digest(Hmac_update(Hmac_new(key), message),
                    Rep(0, DIGEST_SIZE)).buf

(***************************************************************************)
(* src/src/ghash.rs                                                        *)
(***************************************************************************)
\* const R0: u64 = 0xe1 << 56
R0 == W_shl(W_from(225), 56)

\* 1 << 63
TopBit == W_shl(W_from(1), 63)

\* GFBlock::new: two big-endian words from 16 bytes
GFBlock_new(bytes) == read_u64_into(bytes)

\* impl BitXorAssign for GFBlock
bitxor_assign(l, r) == <<W_xor(l[1], r[1]), W_xor(l[2], r[2])>>

\* A plausible slip: v.0[1] >>= 1 without the bit carried in from v.0[0].
mul_bit_no_carry(s) ==
  LET h == W_and(s.xp, TopBit)
      m == W_sar(h, 63)
      z == <<W_xor(s.z[1], W_and(s.v[1], m)), W_xor(s.z[2], W_and(s.v[2], m))>>
      h2 == W_shl(s.v[2], 63)
      m2 == W_sar(h2, 7)
      v1 == W_shr(s.v[2], 1)
      v0 == W_xor(W_shr(s.v[1], 1), W_and(R0, m2))
  IN  [z |-> z, v |-> <<v0, v1>>, xp |-> W_shl(s.xp, 1)]

\* The body of "for _ in 0..64" in mul_assign, once. s = [z, v, xp] holds z,
\* v and the word *xp of self the outer loop is at.
mul_bit(s) ==
  LET h == W_and(s.xp, TopBit)
      m == W_sar(h, 63)
      z == <<W_xor(s.z[1], W_and(s.v[1], m)), W_xor(s.z[2], W_and(s.v[2], m))>>
      h2 == W_shl(s.v[2], 63)
      m2 == W_sar(h2, 7)
      v1 == W_or(W_shr(s.v[2], 1), W_shl(s.v[1], 63))
      v0 == W_xor(W_shr(s.v[1], 1), W_and(R0, m2))
  IN  [z |-> z, v |-> <<v0, v1>>, xp |-> W_shl(s.xp, 1)]

\* n iterations of it, in order
RECURSIVE mul_word(_, _)
mul_word(s, n) ==
  IF Computed(s) /\ n <= 0 THEN s
  ELSE IF n = 1 THEN mul_bit(s)
  ELSE mul_word(mul_word(s, n \div 2), n - (n \div 2))

\* impl MulAssign for GFBlock: the value left in self
mul_assign(self, rhs) ==
  LET a == mul_word([z |-> <<W_zero, W_zero>>, v |-> rhs, xp |-> self[1]], 64)
      b == mul_word([z |-> a.z, v |-> a.v, xp |-> self[2]], 64)
  IN  b.z

\* PolyFunction::new
PolyFunction_new(key) ==
  [key_block |-> GFBlock_new(key), state |-> <<W_zero, W_zero>>]

\* PolyFunction::process
PolyFunction_process(f, input) ==
  [f EXCEPT !.state =
     mul_assign(bitxor_assign(@, GFBlock_new(input)), f.key_block)]

\* PolyFunction::write_value
PolyFunction_write_value(f) == write_u64_into(f.state)

\* The loop of GHash::process over cs = input.chunks(16)
RECURSIVE GHash_fold(_, _)
GHash_fold(f, cs) ==
  IF Computed(f) /\ cs = <<>> THEN f
  ELSE LET chunk == Head(cs)
       IN  IF Len(chunk) < 16
           THEN GHash_fold(
                  PolyFunction_process(f, chunk \o Rep(0, 16 - Len(chunk))),
                  Tail(cs))
           ELSE GHash_fold(PolyFunction_process(f, chunk), Tail(cs))

\* A plausible slip: chunks_exact(16) for chunks(16), the trailing partial
\* chunk is never folded.
GHash_process_exact(g, input) ==
  [g EXCEPT !.function =
     GHash_fold(@, SelectSeq(chunks(input, 16), LAMBDA c : Len(c) = 16))]

\* GHash::process
GHash_process(g, input) ==
  [g EXCEPT !.function = GHash_fold(@, chunks(input, 16))]

\* GHash::new
GHash_new(key, data) ==
  GHash_process([function |-> PolyFunction_new(key),
                 data_len |-> Len(data),
                 ciphertext_len |-> 0], data)

\* A plausible slip: = for +=, ciphertext_len holds the length of the last
\* input only.
GHash_update_assign_len(g, input) ==
  GHash_process([g EXCEPT !.ciphertext_len = Len(input)], input)

\* GHash::update
GHash_update(g, input) ==
  GHash_process([g EXCEPT !.ciphertext_len = @ + Len(input)], input)

\* A plausible slip: the length block holds byte counts, not bit counts.
GHash_write_tag_byte_lengths(g) ==
  LET output == write_u64(W_from(g.data_len))
                  \o write_u64(W_from(g.ciphertext_len))
  IN  PolyFunction_write_value(PolyFunction_process(g.function, output))

\* GHash::write_tag: the 16 bytes left in output
GHash_write_tag(g) ==
  LET output == write_u64(W_from(8 * g.data_len))
                  \o write_u64(W_from(8 * g.ciphertext_len))
  IN  PolyFunction_write_value(PolyFunction_process(g.function, output))

\* fn ghash
ghash(key, data, ciphertext) ==
  GHash_write_tag(GHash_update(GHash_new(key, data), ciphertext))

(***************************************************************************)
(* The caller.  It constructs one state object, streams input into it and  *)
(* finalizes it; the objects share no state, so it holds one at a time.    *)
(***************************************************************************)
\* The calls made on one object after its construction: at most MaxShaCalls
\* on a Sha, MaxCalls on an Hmac or a GHash
MaxShaCalls == 2

MaxCalls == 3

\* No object in the caller's hands
NoObj == [object |-> "none"]

\* A GHash after write_tag(mut self, ..): moved out of the caller's hands
Moved == [object |-> "moved"]

\* Messages for Sha::process: empty, the five bytes of tests::test_pad, and
\* the lengths 111 and 112 on either side of the padding boundary
ShaMessages == {<<>>, <<97, 98, 99, 100, 101>>, Rep(97, 111), Rep(97, 112)}

\* Output buffers handed to Sha::write_digest_into, by length and prior fill
ShaBuffers == {Rep(f, n) : f \in {0, 238}, n \in {0, 47, 48, 49, 63, 64, 65}}

\* Keys for Hmac::new: empty, "Jefe", exactly BLOCK_SIZE bytes, one more
HmacKeys == {<<>>, <<74, 101, 102, 101>>, Rep(170, 128), Rep(170, 129)}

\* Inputs for Hmac::update: empty, "Hi T", "here"
HmacInputs == {<<>>, <<72, 105, 32, 84>>, <<104, 101, 114, 101>>}

\* Output buffers handed to Hmac::write_digest
HmacBuffers == {Rep(0, 48), Rep(0, 64)}

\* Byte strings of the tests of ghash.rs
H1 == <<102, 233, 75, 212, 239, 138, 44, 59, 136, 76, 250, 89, 202, 52, 43, 46>>

H2 == <<172, 190, 242, 5, 121, 180, 184, 235, 206, 136, 155, 172, 135, 50, 218,
    215>>

A16 == <<254, 237, 250, 206, 222, 173, 190, 239, 254, 237, 250, 206, 222, 173,
    190, 239, 171, 173, 218, 210>>

C16 == <<3, 136, 218, 206, 96, 182, 163, 146, 243, 40, 194, 185, 113, 178, 254,
    120>>

C20 == <<82, 45, 193, 240, 153, 86, 125, 7, 244, 127, 55, 163, 42, 132, 66, 125,
    100, 58, 140, 220>>

\* Keys for GHash::new (the hash subkeys of tests::test_case_1_2 and
\* tests::test_case_15_16_17_18)
GHashKeys == {H1, H2}

\* Additional data for GHash::new: none, and the 20 bytes of test case 16
GHashData == {<<>>, A16}

\* Inputs for GHash::update: empty, one byte, that byte and 15 zero bytes,
\* and 20 bytes (one full block and a partial one)
GHashInputs ==
  {<<>>, <<3>>, <<3>> \o Rep(0, 15), C20}

\* Operands for GFBlock's *=, as 16 big-endian bytes each
GFBlocks ==
  {Rep(0, 16), <<128>> \o Rep(0, 15), <<64>> \o Rep(0, 15),
   Rep(0, 15) \o <<1>>, Rep(255, 16), <<225>> \o Rep(0, 15),
   Rep(0, 7) \o <<1>> \o Rep(0, 8), Rep(0, 8) \o <<128>> \o Rep(0, 7),
   H1, H2, C16}

VARIABLES
  sha,       \* the caller's Sha, or NoObj
  hmac,      \* the caller's Hmac, or NoObj
  mac,       \* the caller's GHash, NoObj, or Moved
  gf,        \* the operands and the result of the last *= on a GFBlock
  key,       \* the key the Hmac or GHash was constructed with
  data,      \* the additional data the GHash was constructed with
  calls,     \* the calls made on the object: [op |-> name, input |-> bytes]
  prev,      \* the object as it was before the last call
  padded,    \* the local message of the last Sha::process, after Self::pad
  out,       \* the caller's output buffer after the last finalize call
  panicked   \* the thread has panicked

vars == <<sha, hmac, mac, gf, key, data, calls, prev, padded, out, panicked>>

Init ==
  /\ sha = NoObj
  /\ hmac = NoObj
  /\ mac = NoObj
  /\ gf = NoObj
  /\ key = <<>>
  /\ data = <<>>
  /\ calls = <<>>
  /\ prev = NoObj
  /\ padded = <<>>
  /\ out = <<>>
  /\ panicked = FALSE

Fresh == sha = NoObj /\ hmac = NoObj /\ mac = NoObj /\ gf = NoObj

Call(op, input) == [op |-> op, input |-> input]

\* let mut sha = Sha::new(SHA512) or Sha::new(SHA384)
ShaNew ==
  \E hash \in {SHA512, SHA384} :
    /\ Fresh
    /\ sha' = Sha_new(hash)
    /\ UNCHANGED <<hmac, mac, gf, key, data, calls, prev, padded, out, panicked>>

\* sha.process(message)
ShaProcess ==
  \E message \in ShaMessages :
    /\ sha # NoObj /\ ~panicked /\ Len(calls) < MaxShaCalls
    /\ LET r == Sha_process(sha, message)
       IN  /\ sha' = r.sha
           /\ padded' = r.message
           /\ panicked' = r.panic
    /\ calls' = Append(calls, Call("process", message))
    /\ prev' = sha
    /\ UNCHANGED <<hmac, mac, gf, key, data, out>>

\* sha.write_digest_into(&mut buf): &self, the Sha stays with the caller
ShaWriteDigestInto ==
  \E buf \in ShaBuffers :
    /\ sha # NoObj /\ ~panicked /\ Len(calls) < MaxShaCalls
    /\ LET r == Sha_write_digest_into(sha, buf)
       IN  /\ out' = r.buf
           /\ panicked' = r.panic
    /\ calls' = Append(calls, Call("write_digest_into", buf))
    /\ prev' = sha
    /\ UNCHANGED <<sha, hmac, mac, gf, key, data, padded>>

\* let mut hmac = Hmac::<Sha384>::new(key)
HmacNew ==
  \E k \in HmacKeys :
    /\ Fresh
    /\ hmac' = Hmac_new(k)
    /\ key' = k
    /\ UNCHANGED <<sha, mac, gf, data, calls, prev, padded, out, panicked>>

\* hmac.update(input)
HmacUpdate ==
  \E input \in HmacInputs :
    /\ hmac # NoObj /\ ~panicked /\ Len(calls) < MaxCalls
    /\ hmac' = Hmac_update(hmac, input)
    /\ calls' = Append(calls, Call("update", input))
    /\ prev' = hmac
    /\ UNCHANGED <<sha, mac, gf, key, data, padded, out, panicked>>

\* hmac.write_digest(&mut output): &mut self, the Hmac stays with the caller
HmacWriteDigest ==
  \E output \in HmacBuffers :
    /\ hmac # NoObj /\ ~panicked /\ Len(calls) < MaxCalls
    /\ \E r \in {Hmac_write_digest(hmac, output)} :
         /\ hmac' = r.hmac
         /\ out' = r.buf
         /\ panicked' = r.panic
    /\ calls' = Append(calls, Call("write_digest", output))
    /\ prev' = hmac
    /\ UNCHANGED <<sha, mac, gf, key, data, padded>>

\* let mut mac = GHash::new(key, data)
GHashNew ==
  \E k \in GHashKeys, d \in GHashData :
    /\ Fresh
    /\ mac' = GHash_new(k, d)
    /\ key' = k
    /\ data' = d
    /\ UNCHANGED <<sha, hmac, gf, calls, prev, padded, out, panicked>>

\* A live GHash: constructed and not moved
GHashLive == mac # NoObj /\ mac # Moved

\* mac.update(input)
GHashUpdate ==
  \E input \in GHashInputs :
    /\ GHashLive /\ ~panicked /\ Len(calls) < MaxCalls
    /\ mac' = GHash_update(mac, input)
    /\ calls' = Append(calls, Call("update", input))
    /\ prev' = mac
    /\ UNCHANGED <<sha, hmac, gf, key, data, padded, out, panicked>>

\* A plausible slip: write_tag(&mut self, ..), the GHash stays with the caller.
GHashWriteTag_borrowed ==
  /\ GHashLive /\ ~panicked /\ Len(calls) < MaxCalls
  /\ out' = GHash_write_tag(mac)
  /\ calls' = Append(calls, Call("write_tag", Rep(0, 16)))
  /\ prev' = mac
  /\ UNCHANGED <<sha, hmac, mac, gf, key, data, padded, panicked>>

\* mac.write_tag(&mut tag): self is taken by value, nothing can follow
GHashWriteTag ==
  /\ GHashLive /\ ~panicked /\ Len(calls) < MaxCalls
  /\ out' = GHash_write_tag(mac)
  /\ mac' = Moved
  /\ calls' = Append(calls, Call("write_tag", Rep(0, 16)))
  /\ prev' = mac
  /\ UNCHANGED <<sha, hmac, gf, key, data, padded, panicked>>

\* x *= y on GFBlocks read from 16 bytes each
GFMulAssign ==
  \E x \in GFBlocks, y \in GFBlocks :
    /\ Fresh
    /\ gf' = [x |-> GFBlock_new(x), y |-> GFBlock_new(y),
              z |-> mul_assign(GFBlock_new(x), GFBlock_new(y))]
    /\ UNCHANGED <<sha, hmac, mac, key, data, calls, prev, padded, out, panicked>>

NextSha == ShaNew \/ ShaProcess \/ ShaWriteDigestInto

NextHmac == HmacNew \/ HmacUpdate \/ HmacWriteDigest

NextGHash == GHashNew \/ GHashUpdate \/ GHashWriteTag

Next == NextSha \/ NextHmac \/ NextGHash \/ GFMulAssign

Spec == Init /\ [][Next]_vars

SpecSha == Init /\ [][NextSha]_vars

SpecHmac == Init /\ [][NextHmac]_vars

SpecGHash == Init /\ [][NextGHash]_vars

SpecGF == Init /\ [][GFMulAssign]_vars

(***************************************************************************)
(* Properties.  The call log and prev relate the state after a call to the *)
(* state before it; the expected values are computed apart from the        *)
(* operators above wherever the property is about their arithmetic.        *)
(***************************************************************************)
Last(s) == s[Len(s)]

\* The last call made on the object is op
LastOp(op) == calls # <<>> /\ Last(calls).op = op

\* Every call before the last one is an update
OnlyUpdatesBefore == \A i \in 1..(Len(calls) - 1) : calls[i].op = "update"

\* The concatenation of the inputs of the update calls of cs, in order
RECURSIVE Streamed(_)
Streamed(cs) ==
  IF cs = <<>> THEN <<>>
  ELSE (IF Head(cs).op = "update" THEN Head(cs).input ELSE <<>>)
         \o Streamed(Tail(cs))

\* Bit j of byte a, and the XOR of two bytes bit by bit
Bit(a, j) == (a \div 2^j) % 2

XorRef(a, b) ==
  LET d(j) == (Bit(a, j) + Bit(b, j)) % 2
  IN  d(0) + 2 * d(1) + 4 * d(2) + 8 * d(3) + 16 * d(4) + 32 * d(5)
        + 64 * d(6) + 128 * d(7)

\* The big-endian 64-bit encoding of n, for n below 2^31
BE64(n) == Rep(0, 4) \o [i \in 1..4 |-> (n \div 256^(4 - i)) % 256]

\* Byte i (from 1) of a sequence of 64-bit words laid out big-endian
WordsByte(ws, i) ==
  LET limb == ws[((i - 1) \div 8) + 1][(((i - 1) % 8) \div 2) + 1]
  IN  IF i % 2 = 1 THEN limb \div 256 ELSE limb % 256

\* HMAC's effective key and the block-size padded key for pad byte p
EffectiveKey(k) == IF Len(k) > BLOCK_SIZE THEN sha384(k) ELSE k

PaddedKey(k, p) ==
  CHOOSE s \in
    {[i \in 1..BLOCK_SIZE |-> XorRef(IF i <= Len(ek) THEN ek[i] ELSE 0, p)] :
       ek \in {EffectiveKey(k)}} : TRUE

\* C1: HMAC streaming equivalence. Whenever an Hmac built from a key has
\* been fed a message as any sequence of update calls (empty chunks and
\* chunks of 4 included) and write_digest is then called, the digest left
\* in the buffer is the one a single update with the whole message gives.
HmacStreamingEquivalence ==
  (hmac # NoObj /\ LastOp("write_digest") /\ ~panicked /\ OnlyUpdatesBefore)
    => out = hmac_sha384(key, Streamed(calls))

\* Reached: "Hi T" and "here" streamed in two updates, then a digest.
HmacChunkedDigest ==
  /\ hmac # NoObj /\ ~panicked /\ Len(calls) = 3
  /\ calls[1] = Call("update", <<72, 105, 32, 84>>)
  /\ calls[2] = Call("update", <<104, 101, 114, 101>>)
  /\ calls[3].op = "write_digest"

\* C2: GHASH streaming equivalence. Whenever a GHash has been fed a
\* ciphertext as any sequence of update calls, chunk sizes that are no
\* multiples of 16 included, write_tag leaves the tag that a single update
\* with the whole ciphertext gives.
GHashStreamingEquivalence ==
  (mac = Moved /\ LastOp("write_tag"))
    => out = ghash(key, data, Streamed(calls))

\* C3: fail-fast on a wrong output size. For either variant,
\* write_digest_into panics exactly when the buffer length differs from
\* output_len, and then the buffer is as the caller passed it; with a
\* buffer of output_len bytes it does not panic and every byte of the
\* buffer is a byte of the state words, big-endian. The Sha is not changed.
ShaFailFast ==
  (sha # NoObj /\ LastOp("write_digest_into")) =>
    LET buf == Last(calls).input
    IN  /\ sha.output_len \in {SHA384_OUTPUT_LEN, SHA512_OUTPUT_LEN}
        /\ panicked <=> Len(buf) # sha.output_len
        /\ panicked => out = buf
        /\ ~panicked =>
             /\ Len(out) = sha.output_len
             /\ \A i \in 1..Len(out) : out[i] = WordsByte(sha.state, i)
        /\ sha = prev

\* Reached: a SHA-384 state asked to fill a 64-byte buffer of 0xee bytes.
ShaWrongBufferPanics ==
  /\ sha # NoObj /\ LastOp("write_digest_into") /\ panicked
  /\ sha.output_len = SHA384_OUTPUT_LEN
  /\ Last(calls).input = Rep(238, 64)
  /\ out = Rep(238, 64)

\* C4: HMAC key priming. Right after Hmac::new(key) each engine has been
\* fed exactly BLOCK_SIZE bytes, byte i being K'[i] XOR 0x36 for the inner
\* and K'[i] XOR 0x5c for the outer engine, with K' the effective key
\* zero-extended to BLOCK_SIZE; the effective key is the digest of the key
\* exactly when the key is longer than BLOCK_SIZE, else the key itself.
HmacKeyPriming ==
  (hmac # NoObj /\ calls = <<>>) =>
    /\ hmac.inner_hash_function.fed = PaddedKey(key, 54)
    /\ hmac.outer_hash_function.fed = PaddedKey(key, 92)
    /\ Len(hmac.inner_hash_function.fed) = BLOCK_SIZE
    /\ Len(hmac.outer_hash_function.fed) = BLOCK_SIZE

\* Reached: an Hmac primed with a key of BLOCK_SIZE + 1 bytes.
HmacPrimedLongKey ==
  hmac # NoObj /\ calls = <<>> /\ Len(key) = BLOCK_SIZE + 1

\* C5: HMAC two-pass finalization. write_digest leaves
\* H(outer stream || H(inner stream)) in the buffer, feeds the outer engine
\* the inner digest and nothing else, and leaves the inner engine alone;
\* at the first write_digest the inner stream is the padded inner key
\* followed by the update inputs and the outer stream is the padded outer
\* key. update feeds the inner engine only.
HmacTwoPass ==
  /\ (hmac # NoObj /\ LastOp("write_digest") /\ ~panicked) =>
       \E d \in {sha384(prev.inner_hash_function.fed)} :
         /\ out = sha384(prev.outer_hash_function.fed \o d)
         /\ hmac.outer_hash_function.fed = prev.outer_hash_function.fed \o d
         /\ hmac.inner_hash_function = prev.inner_hash_function
         /\ OnlyUpdatesBefore =>
              /\ prev.inner_hash_function.fed
                   = PaddedKey(key, 54) \o Streamed(calls)
              /\ prev.outer_hash_function.fed = PaddedKey(key, 92)
  /\ (hmac # NoObj /\ LastOp("update")) =>
       /\ hmac.outer_hash_function = prev.outer_hash_function
       /\ hmac.inner_hash_function.fed
            = prev.inner_hash_function.fed \o Last(calls).input

\* Reached: a digest written after a non-empty message was streamed.
HmacFinalizedAfterUpdate ==
  /\ hmac # NoObj /\ LastOp("write_digest") /\ ~panicked
  /\ OnlyUpdatesBefore /\ Streamed(calls) # <<>>
  /\ Len(out) = DIGEST_SIZE

\* The operations that write an object's output
FinalizeOps == {"write_digest_into", "write_digest", "write_tag"}

\* C6 as stated: single-finalize lifecycle. For a Sha, an Hmac and a GHash
\* alike, once the finalize operation has been called no further
\* process/update or finalize call on the object occurs: a finalize call is
\* the last call in the log.
SingleFinalize ==
  \A i \in 1..(Len(calls) - 1) : calls[i].op \notin FinalizeOps

\* C6, amended: only a GHash is consumed by its finalize operation. Once
\* write_tag has been called the GHash is moved out of the caller's hands
\* and no update or write_tag follows; a GHash is moved by write_tag alone.
\* write_digest_into leaves the Sha, and write_digest the Hmac, with the
\* caller.
GHashConsumedOnFinalize ==
  /\ \A i \in 1..Len(calls) :
       calls[i].op = "write_tag" => (i = Len(calls) /\ mac = Moved)
  /\ mac = Moved => LastOp("write_tag")
  /\ (sha # NoObj /\ LastOp("write_digest_into")) => sha = prev
  /\ \A i \in 1..Len(calls) : calls[i].op = "write_digest" => hmac # NoObj

\* Reached: a GHash finalized while the caller could still make calls.
GHashMovedEarly ==
  mac = Moved /\ LastOp("write_tag") /\ Len(calls) < MaxCalls

\* C7: GHASH length block. While the GHash is live data_len is the byte
\* length of the additional data and ciphertext_len the sum of the byte
\* lengths of the update inputs. write_tag folds one more block into the
\* accumulator left by the calls before it, the big-endian 64-bit encodings
\* of 8 * data_len and of 8 * ciphertext_len, and the 16 bytes written are
\* the accumulator's two words, big-endian.
GHashLengthBlock ==
  /\ (mac # NoObj /\ mac # Moved) =>
       /\ mac.data_len = Len(data)
       /\ mac.ciphertext_len = Len(Streamed(calls))
  /\ (mac = Moved /\ LastOp("write_tag")) =>
       \E acc \in {mul_assign(
                     bitxor_assign(
                       prev.function.state,
                       GFBlock_new(BE64(8 * Len(data))
                                     \o BE64(8 * Len(Streamed(calls))))),
                     prev.function.key_block)} :
         /\ Len(out) = 16
         /\ \A i \in 1..16 : out[i] = WordsByte(acc, i)

\* Reached: a tag written over 20 bytes of additional data and a
\* ciphertext whose length is no multiple of 16.
GHashTagWithLengths ==
  /\ mac = Moved /\ LastOp("write_tag")
  /\ Len(data) = 20 /\ Len(Streamed(calls)) % 16 # 0

\* C8: SHA padding format. The message Sha::process works on after pad is
\* the n message bytes, one 0x80 byte, the least z >= 0 zero bytes that
\* make n + 1 + z congruent to 112 modulo 128 (none for n mod 128 = 111,
\* 127 for n mod 128 = 112), eight zero bytes and the big-endian 64-bit
\* encoding of 8 * n. Its length is a positive multiple of 128, so process
\* meets full blocks only and does not panic.
ShaPaddingFormat ==
  (sha # NoObj /\ LastOp("process")) =>
    LET msg == Last(calls).input
        n == Len(msg)
        z == CHOOSE k \in 0..127 : (n + 1 + k) % 128 = 112
    IN  /\ padded = msg \o <<128>> \o Rep(0, z) \o Rep(0, 8) \o BE64(8 * n)
        /\ n % 128 = 111 => Len(padded) = n + 1 + 16
        /\ n % 128 = 112 => Len(padded) = n + 1 + 127 + 16
        /\ Len(padded) > 0 /\ Len(padded) % 128 = 0
        /\ ~panicked

\* Reached: a message of 112 bytes, padded to two blocks.
ShaPaddedPastBoundary ==
  /\ sha # NoObj /\ LastOp("process") /\ ~panicked
  /\ Len(Last(calls).input) = 112 /\ Len(padded) = 256

\* The polynomial function after the bytes are folded in 16 at a time, the
\* last 1..15 of them followed by zero bytes up to 16
RECURSIVE FoldPadded(_, _)
FoldPadded(f, bytes) ==
  IF Computed(f) /\ bytes = <<>> THEN f
  ELSE IF Len(bytes) <= 16
  THEN PolyFunction_process(
         f, [i \in 1..16 |-> IF i <= Len(bytes) THEN bytes[i] ELSE 0])
  ELSE FoldPadded(PolyFunction_process(f, SubSeq(bytes, 1, 16)),
                  SubSeq(bytes, 17, Len(bytes)))

\* C9: GHASH partial-block boundary. update folds its input 16 bytes at a
\* time, full chunks as they are and a trailing chunk of 1..15 bytes
\* right-padded with zero bytes to 16, and adds the input's byte length to
\* ciphertext_len. So update of one byte b leaves the accumulator that
\* update of b followed by 15 zero bytes leaves, with ciphertext_len grown
\* by 1 in place of 16.
GHashPartialBlock ==
  (mac # NoObj /\ mac # Moved /\ LastOp("update")) =>
    LET input == Last(calls).input
    IN  /\ mac.function = FoldPadded(prev.function, input)
        /\ mac.ciphertext_len = prev.ciphertext_len + Len(input)
        /\ mac.data_len = prev.data_len
        /\ Len(input) = 1 =>
             \E full \in {GHash_update(prev, input \o Rep(0, 15))} :
               /\ mac.function = full.function
               /\ full.ciphertext_len = prev.ciphertext_len + 16
               /\ mac.ciphertext_len = prev.ciphertext_len + 1

\* Reached: one byte folded into the accumulator after 20 bytes of
\* additional data.
GHashOneByteFolded ==
  /\ mac # NoObj /\ mac # Moved /\ LastOp("update")
  /\ Last(calls).input = <<3>> /\ Len(data) = 20
  /\ mac.function.state # prev.function.state

\* A GFBlock as its 128 coefficients, the most significant bit of word 0
\* (the coefficient of degree 0) first
GFBits(block) ==
  [i \in 1..128 |->
     (block[((i - 1) \div 64) + 1][(((i - 1) % 64) \div 16) + 1]
        \div 2^(15 - ((i - 1) % 16))) % 2]

\* 0xe1 << 120 as coefficients
RBits == [i \in 1..128 |-> IF i \in {1, 2, 3, 8} THEN 1 ELSE 0]

\* v times t: one place towards the higher degrees, reduced when the
\* coefficient of degree 127 falls off
TimesT(v) ==
  IF v[128] = 1
  THEN [i \in 1..128 |-> ((IF i = 1 THEN 0 ELSE v[i - 1]) + RBits[i]) % 2]
  ELSE [i \in 1..128 |-> IF i = 1 THEN 0 ELSE v[i - 1]]

\* The steps lo..hi-1 of the reference multiplication on s = [z, v]: z
\* gains v when coefficient i of x is set, v becomes v times t
RECURSIVE RefMulSteps(_, _, _, _)
RefMulSteps(s, x, lo, hi) ==
  IF Computed(s) /\ hi <= lo THEN s
  ELSE IF hi = lo + 1
  THEN [z |-> IF x[lo] = 1
              THEN [i \in 1..128 |-> (s.z[i] + s.v[i]) % 2]
              ELSE s.z,
        v |-> TimesT(s.v)]
  ELSE LET mid == (lo + hi) \div 2
       IN  RefMulSteps(RefMulSteps(s, x, lo, mid), x, mid, hi)

RefMul(x, y) ==
  RefMulSteps([z |-> [i \in 1..128 |-> 0], v |-> y], x, 1, 129).z

\* The element with only its most significant bit set
GFOne == GFBlock_new(<<128>> \o Rep(0, 15))

\* C10: GF(2^128) multiplication. x *= y leaves in x the XOR, over the set
\* coefficients i of x scanned from the most significant bit, of y times
\* t^i reduced by 0xe1 << 120, which is what the branch-based reference
\* computes; the product does not depend on the order of the operands, and
\* the element with only its most significant bit set is the identity.
GFMulCorrect ==
  gf # NoObj =>
    /\ GFBits(gf.z) = RefMul(GFBits(gf.x), GFBits(gf.y))
    /\ gf.z = mul_assign(gf.y, gf.x)
    /\ gf.x = GFOne => gf.z = gf.y
    /\ gf.y = GFOne => gf.z = gf.x

\* Reached: the product of the ciphertext block and the hash subkey of the
\* second test case.
GFProductOfTestBlocks ==
  /\ gf # NoObj /\ gf.x = GFBlock_new(C16) /\ gf.y = GFBlock_new(H1)
  /\ gf.z # <<W_zero, W_zero>> /\ gf.z # gf.x /\ gf.z # gf.y

\* The update calls of cs, in order
Updates(cs) == SelectSeq(cs, LAMBDA c : c.op = "update")

\* Every call of us except possibly the last has an input whose length is
\* a multiple of 16 bytes (empty inputs included)
BlockAligned(us) == \A i \in 1..(Len(us) - 1) : Len(us[i].input) % 16 = 0

\* C11: GHASH block-aligned chunking. When the ciphertext is fed as
\* consecutive update calls of which every one except possibly the last
\* has a length that is a multiple of 16 bytes, the accumulator, data_len
\* and ciphertext_len after the calls, and the tag write_tag leaves, are
\* those of a GHash constructed with the same key and additional data and
\* given a single update with the whole ciphertext. An update with an
\* empty input leaves the GHash as it was.
GHashBlockAlignedChunking ==
  /\ (mac # NoObj /\ calls # <<>> /\ BlockAligned(Updates(calls))) =>
       \E whole \in {GHash_update(GHash_new(key, data), Streamed(calls))} :
         IF mac = Moved
         THEN LastOp("write_tag") /\ out = GHash_write_tag(whole)
         ELSE /\ mac.function = whole.function
              /\ mac.data_len = whole.data_len
              /\ mac.ciphertext_len = whole.ciphertext_len
  /\ (GHashLive /\ LastOp("update") /\ Last(calls).input = <<>>) => mac = prev

\* Reached: 16 bytes, then 20 bytes, then write_tag, after 20 bytes of
\* additional data; the tag is that of the 36 bytes in one update.
GHashAlignedThenPartialTag ==
  /\ mac = Moved /\ Len(calls) = 3 /\ LastOp("write_tag")
  /\ calls[1] = Call("update", <<3>> \o Rep(0, 15))
  /\ calls[2] = Call("update", C20)
  /\ Len(data) = 20
  /\ Len(Streamed(calls)) = 36
====
